---- MODULE Spec2Model ----
(***************************************************************************)
(* Model of the API-documentation generator build-py-docs.py (the mkdocs   *)
(* hook on_pre_build and its helpers), followed by the other programs of   *)
(* the repository, each with its own variables and its own specification;  *)
(* a specification leaves the variables of the other programs idle.        *)
(*                                                                         *)
(* Python str values are sequences of code points, so that split, join,    *)
(* startswith, rstrip, sorting and path building are computed character by *)
(* character, as the code computes them.                                   *)
(*                                                                         *)
(* The SDK tree is any set of at most MaxFiles files of FileUniverse, whose *)
(* directory and file names hold no dot besides the ".py" suffix; rglob     *)
(* lists them in any order. git clone and pip install succeed or fail; an   *)
(* import inside discover_modules may raise what is no ImportError.         *)
(***************************************************************************)
EXTENDS Integers, Sequences, FiniteSets, TLC

VARIABLES
    pc,                \* position inside on_pre_build
    repo,              \* *.py and other files of the remote repository, below src/
    temp_dir,          \* TEMP_DIR: whether it exists, and the files below TEMP_DIR/src
    out_dir,           \* TRUE when OUTPUT_DIR exists
    installed,         \* TRUE when pip install succeeded
    sys_path,          \* sys.path
    modules,           \* on_pre_build local: result of discover_modules
    categories,        \* on_pre_build local: category -> list of modules
    todo,              \* categories the for loop of line 168 has still to visit
    category,          \* loop local: the category processed last
    module_list,       \* loop local
    containers,        \* loop local: result of find_container_modules
    nav_items,         \* on_pre_build local
    experimental_nav,  \* on_pre_build local: <<>> for None, or <<the nav entry>>
    calls,             \* generate_doc_file calls of this run, in order
    disk,              \* files below OUTPUT_DIR: path -> content
    config_nav,        \* config['nav']
    log,               \* what was printed (tags)
    raised             \* TRUE when an exception leaves on_pre_build

vars == <<pc, repo, temp_dir, out_dir, installed, sys_path, modules, categories, todo,
          category, module_list, containers, nav_items, experimental_nav, calls, disk,
          config_nav, log, raised>>

-----------------------------------------------------------------------------
(* Strings *)

s_slash == <<47>>
s_dot == <<46>>
s_underscore == <<95>>
s_space == <<32>>
s_s == <<115>>
s_md == <<46,109,100>>                        \* ".md"
s_py == <<46,112,121>>                        \* ".py"
s_index_md == <<47,105,110,100,101,120,46,109,100>>  \* "/index.md"
s_strands == <<115,116,114,97,110,100,115>>
s_experimental == <<101,120,112,101,114,105,109,101,110,116,97,108>>
s_tools == <<116,111,111,108,115>>
s_tool == <<116,111,111,108>>
s_index == <<105,110,100,101,120>>
s_mcp == <<109,99,112>>
s_a == <<97>>
s_b_c == <<98,95,99>>
s_agent == <<97,103,101,110,116>>
s_priv == <<95,112,114,105,118>>             \* "_priv"
s_sub == <<115,117,98>>
s_docs == <<100,111,99,115,47>>               \* "docs/"
s_slash_docs == <<47,100,111,99,115,47>>      \* "/docs/"
s_sdk_src == <<116,101,109,112,95,112,121,116,104,111,110,95,115,100,107,47,115,114,99>>
s_site == <<115,105,116,101>>                 \* a sys.path entry of the host
s_python_api == <<80,121,116,104,111,110,32,65,80,73>>  \* "Python API"
s_home == <<72,111,109,101>>                  \* "Home"

OUTPUT_DIR == <<100,111,99,115,47,97,112,105,45,114,101,102,101,114,101,110,99,101,47,
                112,121,116,104,111,110>>     \* "docs/api-reference/python"

\* str.startswith
StartsWith(s, p) == Len(p) <= Len(s) /\ SubSeq(s, 1, Len(p)) = p

\* str.endswith
EndsWith(s, p) == Len(p) <= Len(s) /\ SubSeq(s, Len(s) - Len(p) + 1, Len(s)) = p

\* Python's < on str: lexicographic by code point, a proper prefix is smaller
StrLess(a, b) ==
    \E i \in 1..Len(b) :
        /\ i <= Len(a) + 1
        /\ SubSeq(a, 1, i - 1) = SubSeq(b, 1, i - 1)
        /\ (i > Len(a) \/ a[i] < b[i])

\* str.split(c) for a one-character separator c
Split(s, c) ==
    LET seps == {i \in 1..Len(s) : s[i] = c[1]}
        n == Cardinality(seps)
        \* the position of the k-th separator; 0 and Len(s) + 1 bound the string
        Sep(k) == IF k = 0 THEN 0
                  ELSE IF k = n + 1 THEN Len(s) + 1
                  ELSE CHOOSE i \in seps : Cardinality({j \in seps : j < i}) = k - 1
    IN  [k \in 1..(n + 1) |-> SubSeq(s, Sep(k - 1) + 1, Sep(k) - 1)]

\* sep.join(parts)
RECURSIVE Join(_, _)
Join(parts, sep) ==
    IF parts = <<>> THEN <<>>
    ELSE IF Len(parts) = 1 THEN parts[1]
    ELSE parts[1] \o sep \o Join(Tail(parts), sep)

\* str.replace(a, b) for one-character a and b
Replace(s, a, b) == [i \in 1..Len(s) |-> IF s[i] = a[1] THEN b[1] ELSE s[i]]

\* str.rstrip(c) for a one-character set
RECURSIVE RStrip(_, _)
RStrip(s, c) ==
    IF s # <<>> /\ s[Len(s)] = c[1] THEN RStrip(SubSeq(s, 1, Len(s) - 1), c) ELSE s

\* str.capitalize on ASCII: first character upper-cased, the rest lower-cased
Upper(ch) == IF ch >= 97 /\ ch <= 122 THEN ch - 32 ELSE ch
Lower(ch) == IF ch >= 65 /\ ch <= 90 THEN ch + 32 ELSE ch
Capitalize(w) == [i \in 1..Len(w) |-> IF i = 1 THEN Upper(w[i]) ELSE Lower(w[i])]

\* parts[-1] of a list
Last(parts) == parts[Len(parts)]

\* parts[i:] of a list
From(parts, i) == SubSeq(parts, i, Len(parts))

\* the elements of a list
Range(seq) == {seq[i] : i \in 1..Len(seq)}

\* [x for x in seq if x in S]
RECURSIVE Filter(_, _)
Filter(seq, S) ==
    IF seq = <<>> THEN <<>>
    ELSE (IF Head(seq) \in S THEN <<Head(seq)>> ELSE <<>>) \o Filter(Tail(seq), S)

\* sorted(S) for a set of str
RECURSIVE SortedStrs(_)
SortedStrs(S) ==
    IF S = {} THEN <<>>
    ELSE LET m == CHOOSE x \in S : \A y \in S \ {x} : StrLess(x, y)
         IN  <<m>> \o SortedStrs(S \ {m})

\* all orders in which the elements of a set can be listed
RECURSIVE Orders(_)
Orders(S) ==
    IF S = {} THEN {<<>>}
    ELSE UNION {{<<x>> \o o : o \in Orders(S \ {x})} : x \in S}

-----------------------------------------------------------------------------
(* build-py-docs.py: the helpers *)

\* None where the code has a str or None: no str of the model is empty there
None == <<>>

\* a directory: whether it exists, and the files below it
NoDir == [exists |-> FALSE, files |-> {}]
Dir(files) == [exists |-> TRUE, files |-> files]

\* Path.name
PathName(f) == Last(Split(f, s_slash))

\* Path.with_suffix(''): the name loses what follows its last dot, unless that
\* dot is the first or the last character of the name
WithoutSuffix(f) ==
    LET name == PathName(f)
        dots == {i \in 2..(Len(name) - 1) : name[i] = s_dot[1]}
        last == CHOOSE i \in dots : \A j \in dots : j <= i
    IN  IF dots = {} THEN f ELSE SubSeq(f, 1, Len(f) - (Len(name) - last + 1))

\* sdk_path.rglob('*.py') for sdk_path = TEMP_DIR/src/strands; paths are kept
\* relative to sdk_path.parent
RglobPy(dir) ==
    {f \in dir.files : StartsWith(f, s_strands \o s_slash) /\ EndsWith(PathName(f), s_py)}

\* discover_modules, given the files in the order rglob yields them
RECURSIVE discover_modules(_)
discover_modules(py_files) ==
    IF py_files = <<>> THEN <<>>
    ELSE LET py_file == Head(py_files)
             module == Replace(WithoutSuffix(py_file), s_slash, s_dot)
         IN  (IF StartsWith(PathName(py_file), s_underscore) THEN <<>> ELSE <<module>>)
                 \o discover_modules(Tail(py_files))

\* the children list of find_container_modules, line 45
ContainerChildren(mods, container) ==
    Filter(mods, {m \in Range(mods) : StartsWith(m, container \o s_dot)})

\* find_container_modules with a slip: one child is enough
find_container_modules_OneChild(mods, main_module) ==
    SortedStrs({c \in UNION {{Join(SubSeq(Split(m, s_dot), 1, k), s_dot) :
                                  k \in 3..Len(Split(m, s_dot))} : m \in Range(mods)} :
                    /\ c # main_module
                    /\ c \notin Range(mods)
                    /\ Len(ContainerChildren(mods, c)) >= 1})

find_container_modules(mods, main_module) ==
    SortedStrs({c \in UNION {{Join(SubSeq(Split(m, s_dot), 1, k), s_dot) :
                                  k \in 3..Len(Split(m, s_dot))} : m \in Range(mods)} :
                    /\ c # main_module
                    /\ c \notin Range(mods)
                    /\ Len(ContainerChildren(mods, c)) > 1})

get_display_name(module_name) ==
    LET words == Split(module_name, s_underscore)
    IN  Join([i \in 1..Len(words) |-> Capitalize(words[i])], s_space)

is_base_class(child_name, parent_name) ==
    \/ child_name = parent_name
    \/ child_name = RStrip(parent_name, s_s)
    \/ child_name \o s_s = parent_name

\* A navigation entry. Python builds {display_name: target} for a link and
\* {display_name: [entries]} for a section; "key" is the dotted name the entry was
\* built for, which the dict does not hold and which only the properties read.
NavLink(display_name, key, target) ==
    [kind |-> "link", name |-> display_name, key |-> key, target |-> target, items |-> <<>>]
NavSection(display_name, key, items) ==
    [kind |-> "section", name |-> display_name, key |-> key, target |-> <<>>, items |-> items]

\* sort_key with a slip: the base class is not put first
sort_key_Alphabetical(key, parent_name) ==
    <<1, Last(Split(key, s_dot))>>

\* build_nav.sort_key, and Python's order on the (int, str) tuples it returns
sort_key(key, parent_name) ==
    LET child_name == Last(Split(key, s_dot))
    IN  <<IF is_base_class(child_name, parent_name) THEN 0 ELSE 1, child_name>>
TupleLess(t, u) == t[1] < u[1] \/ (t[1] = u[1] /\ StrLess(t[2], u[2]))

\* sorted(groups.keys(), key=sort_key)
RECURSIVE SortedKeys(_, _)
SortedKeys(keys, parent_name) ==
    IF keys = {} THEN <<>>
    ELSE LET m == CHOOSE x \in keys : \A y \in keys \ {x} :
                      ~TupleLess(sort_key(y, parent_name), sort_key(x, parent_name))
         IN  <<m>> \o SortedKeys(keys \ {m}, parent_name)

RECURSIVE build_nav(_, _, _, _)
build_nav(mods, base_path, parent_module, actual_modules) ==
    LET parent_depth == Len(Split(parent_module, s_dot))
        parent_name == Last(Split(parent_module, s_dot))
        ChildKey(m) == Join(SubSeq(Split(m, s_dot), 1, parent_depth + 1), s_dot)
        grouped == {m \in Range(mods) : Len(Split(m, s_dot)) > parent_depth}
        groups == [k \in {ChildKey(m) : m \in grouped} |->
                       Filter(mods, {m \in grouped : ChildKey(m) = k})]
        order == SortedKeys(DOMAIN groups, parent_name)
        Entry(child_key) ==
            LET child_modules == groups[child_key]
                parts == Split(child_key, s_dot)
                relative_path == Join(From(parts, 3), s_slash)
                display_name == get_display_name(Last(parts))
                grandchildren == Filter(child_modules, Range(child_modules) \ {child_key})
            IN  IF grandchildren # <<>>
                THEN LET child_nav == build_nav(grandchildren, base_path, child_key,
                                                actual_modules)
                     IN  IF child_key \in actual_modules
                         THEN NavSection(display_name, child_key,
                                  <<NavLink(display_name, child_key,
                                       base_path \o s_slash \o relative_path \o s_index_md)>>
                                  \o child_nav)
                         ELSE NavSection(display_name, child_key, child_nav)
                ELSE NavLink(display_name, child_key,
                             base_path \o s_slash \o relative_path \o s_md)
    IN  [i \in 1..Len(order) |-> Entry(order[i])]

-----------------------------------------------------------------------------
(* build-py-docs.py: on_pre_build *)

\* f"strands.{category}"
MainModule(cat) == s_strands \o s_dot \o cat

\* re.sub(r'^/?docs/', '', path)
StripDocs(path) ==
    IF StartsWith(path, s_slash_docs) THEN From(path, Len(s_slash_docs) + 1)
    ELSE IF StartsWith(path, s_docs) THEN From(path, Len(s_docs) + 1)
    ELSE path

\* the children list of line 181
DocChildren(module, all_modules) ==
    Filter(all_modules, {m \in Range(all_modules) :
                             StartsWith(m, module \o s_dot) /\ m # module})

\* OutputPath with a slip: every module that has children is skipped, the actual
\* ones included
OutputPath_SkipParents(module, all_modules, actual_modules, category_dir) ==
    LET parts == Split(module, s_dot)
        children == DocChildren(module, all_modules)
        relative == Join(From(parts, 3), s_slash)
    IN  IF children # <<>> THEN None
        ELSE IF Len(parts) = 2 THEN category_dir \o s_index_md
        ELSE category_dir \o s_slash \o relative \o s_md

\* OutputPath with a slip: the namespace-only containers are not skipped
OutputPath_NoSkip(module, all_modules, actual_modules, category_dir) ==
    LET parts == Split(module, s_dot)
        children == DocChildren(module, all_modules)
        relative == Join(From(parts, 3), s_slash)
    IN  IF Len(parts) = 2 THEN category_dir \o s_index_md
        ELSE IF children # <<>> THEN category_dir \o s_slash \o relative \o s_index_md
        ELSE category_dir \o s_slash \o relative \o s_md

\* lines 180-198: the output path of a module, None when the loop skips it
OutputPath(module, all_modules, actual_modules, category_dir) ==
    LET parts == Split(module, s_dot)
        children == DocChildren(module, all_modules)
        relative == Join(From(parts, 3), s_slash)
    IN  IF children # <<>> /\ module \notin actual_modules THEN None
        ELSE IF Len(parts) = 2 THEN category_dir \o s_index_md
        ELSE IF children # <<>> /\ module \in actual_modules
             THEN category_dir \o s_slash \o relative \o s_index_md
        ELSE IF children # <<>> THEN None
        ELSE category_dir \o s_slash \o relative \o s_md

\* the generate_doc_file calls of the loop of lines 179-200 over the list rest
RECURSIVE DocCalls(_, _, _, _)
DocCalls(rest, all_modules, actual_modules, category_dir) ==
    IF rest = <<>> THEN <<>>
    ELSE LET path == OutputPath(Head(rest), all_modules, actual_modules, category_dir)
         IN  (IF path = None THEN <<>> ELSE <<[module |-> Head(rest), output_path |-> path]>>)
                 \o DocCalls(Tail(rest), all_modules, actual_modules, category_dir)

\* generate_doc_file: write_text replaces what the path held; the content of a stub
\* is fixed by its module
RECURSIVE generate_doc_files(_, _)
generate_doc_files(files, cs) ==
    IF cs = <<>> THEN files
    ELSE generate_doc_files(
             [p \in DOMAIN files \cup {Head(cs).output_path} |->
                  IF p = Head(cs).output_path THEN Head(cs).module ELSE files[p]],
             Tail(cs))

\* CategoryNav with a slip: the index link of the main module is left out
CategoryNav_NoIndex(cat, all_modules, actual_modules) ==
    LET main_module == MainModule(cat)
        category_display == get_display_name(cat)
        base_path == StripDocs(OUTPUT_DIR) \o s_slash \o cat
        submodules == Filter(all_modules, Range(all_modules) \ {main_module})
        submodule_nav == build_nav(submodules, base_path, main_module, actual_modules)
    IN  IF submodule_nav # <<>>
        THEN NavSection(category_display, main_module, submodule_nav)
        ELSE NavLink(category_display, main_module, base_path \o s_index_md)

\* lines 203-216: the nav entry of a category
CategoryNav(cat, all_modules, actual_modules) ==
    LET main_module == MainModule(cat)
        category_display == get_display_name(cat)
        base_path == StripDocs(OUTPUT_DIR) \o s_slash \o cat
        submodules == Filter(all_modules, Range(all_modules) \ {main_module})
        submodule_nav == build_nav(submodules, base_path, main_module, actual_modules)
    IN  IF submodule_nav # <<>>
        THEN IF main_module \in actual_modules
             THEN NavSection(category_display, main_module,
                      <<NavLink(category_display, main_module, base_path \o s_index_md)>>
                      \o submodule_nav)
             ELSE NavSection(category_display, main_module, submodule_nav)
        ELSE NavLink(category_display, main_module, base_path \o s_index_md)

\* lines 156-162: categories = {second part of the name: modules, in order}
GroupByCategory(mods) ==
    LET named == {m \in Range(mods) : Len(Split(m, s_dot)) >= 2}
    IN  [c \in {Split(m, s_dot)[2] : m \in named} |->
             Filter(mods, {m \in named : Split(m, s_dot)[2] = c})]

\* lines 229-232: the first item of config['nav'] that has the key 'Python API' gets
\* the new list
RECURSIVE UpdateConfigNav(_, _)
UpdateConfigNav(nav, items) ==
    IF nav = <<>> THEN <<>>
    ELSE IF Head(nav).title = s_python_api
         THEN <<[title |-> s_python_api, value |-> items]>> \o Tail(nav)
    ELSE <<Head(nav)>> \o UpdateConfigNav(Tail(nav), items)

\* list.remove(x): the first occurrence goes
RECURSIVE ListRemove(_, _)
ListRemove(list, x) ==
    IF list = <<>> THEN <<>>
    ELSE IF Head(list) = x THEN Tail(list)
    ELSE <<Head(list)>> \o ListRemove(Tail(list), x)

-----------------------------------------------------------------------------
(* The runs that are explored *)

MaxFiles == 3

\* a source file of the SDK, relative to TEMP_DIR/src
PyFile(parts) == Join(parts, s_slash) \o s_py

FileUniverse ==
    { PyFile(<<s_strands, s_agent>>),
      PyFile(<<s_strands, s_tools>>),
      PyFile(<<s_strands, s_tools, s_tool>>),
      PyFile(<<s_strands, s_tools, s_index>>),
      PyFile(<<s_strands, s_tools, s_mcp>>),
      PyFile(<<s_strands, s_tools, s_mcp, s_a>>),
      PyFile(<<s_strands, s_tools, s_mcp, s_index>>),
      PyFile(<<s_strands, s_tools, s_mcp, s_sub, s_b_c>>),
      PyFile(<<s_strands, s_tools, s_priv>>),
      PyFile(<<s_strands, s_experimental, s_a>>) }

Repos == {r \in SUBSET FileUniverse : Cardinality(r) <= MaxFiles}

NavItem(title, value) == [title |-> title, value |-> value]

\* config['nav'] as mkdocs.yml gives it: an item of another title, then the
\* 'Python API' item the hook fills
ConfigNavs ==
    { <<NavItem(s_home, <<>>), NavItem(s_python_api, <<>>)>> }

NoCategories == [c \in {} |-> <<>>]
NoFiles == [p \in {} |-> <<>>]

-----------------------------------------------------------------------------
(* The state of the other programs; a program that is not running is idle *)

\* the variables of on_pre_build while another program runs
PyIdle ==
    /\ pc = "idle"
    /\ repo = {}
    /\ temp_dir = NoDir
    /\ out_dir = FALSE
    /\ installed = FALSE
    /\ sys_path = <<s_site>>
    /\ modules = <<>>
    /\ categories = NoCategories
    /\ todo = <<>>
    /\ category = None
    /\ module_list = <<>>
    /\ containers = <<>>
    /\ nav_items = <<>>
    /\ experimental_nav = <<>>
    /\ calls = <<>>
    /\ disk = NoFiles
    /\ config_nav = <<>>
    /\ log = <<>>
    /\ raised = FALSE

VARIABLES
    bc_child,          \* is_base_class: the argument child_name
    bc_parent,         \* is_base_class: the argument parent_name
    bc_called,         \* TRUE once is_base_class has returned
    bc_result          \* what it returned

bc_vars == <<bc_child, bc_parent, bc_called, bc_result>>

BcIdle == bc_child = <<>> /\ bc_parent = <<>> /\ bc_called = FALSE /\ bc_result = FALSE

VARIABLES
    gd_pc,             \* generate_docs: where it stands
    gd_before,         \* history: the output directory when generate_docs was called
    gd_output_dir,     \* the directory .build/api-docs/python
    gd_loaded,         \* what session.load_modules() returned (module names)
    gd_modules,        \* the modules the loop has still to visit
    gd_rendered,       \* the modules handed to renderer.render_to_string
    gd_module_files,   \* module_files
    gd_log             \* what was printed

gd_vars == <<gd_pc, gd_before, gd_output_dir, gd_loaded, gd_modules, gd_rendered,
             gd_module_files, gd_log>>

GdIdle ==
    /\ gd_pc = "idle"
    /\ gd_before = NoDir
    /\ gd_output_dir = NoDir
    /\ gd_loaded = <<>>
    /\ gd_modules = <<>>
    /\ gd_rendered = <<>>
    /\ gd_module_files = <<>>
    /\ gd_log = <<>>

VARIABLES
    ts_pc,             \* on_startup of build-ts-docs.py: where it stands
    ts_command,        \* its argument command
    ts_dirty,          \* its argument dirty
    ts_started,        \* the npm scripts started so far, in order
    ts_exit,           \* their exit codes, in order
    ts_log             \* what was printed

ts_vars == <<ts_pc, ts_command, ts_dirty, ts_started, ts_exit, ts_log>>

TsIdle ==
    /\ ts_pc = "idle"
    /\ ts_command = "build"
    /\ ts_dirty = FALSE
    /\ ts_started = <<>>
    /\ ts_exit = <<>>
    /\ ts_log = <<>>

VARIABLES
    qc_approval_after, \* QualityChecker: self.approval_after
    qc_iteration,      \* self.iteration
    qc_results         \* history: what each invoke_async returned, in order

qc_vars == <<qc_approval_after, qc_iteration, qc_results>>

QcIdle == qc_approval_after = 0 /\ qc_iteration = 0 /\ qc_results = <<>>

VARIABLES
    ed_state,          \* the graph state handed to the edge conditions
    ed_needs_revision, \* what needs_revision(state) returned: <<>> before the call
    ed_is_approved     \* what is_approved(state) returned: <<>> before the call

ed_vars == <<ed_state, ed_needs_revision, ed_is_approved>>

EdIdle ==
    /\ ed_state = [shape |-> "idle", approved |-> "absent", iteration |-> 0]
    /\ ed_needs_revision = <<>>
    /\ ed_is_approved = <<>>

VARIABLES
    ev_mode,           \* evaluation: "sequential" (run_evaluations) or "concurrent"
    ev_filters,        \* whether the mapper keeps only the spans of the session id
    ev_pc,             \* where the task function of each case stands
    ev_exporter,       \* memory_exporter: the finished spans it holds
    ev_emitted,        \* history: how many spans the agent of each case emitted
    ev_finished,       \* finished_spans of each case
    ev_trajectory      \* the session returned as trajectory for each case

ev_vars == <<ev_mode, ev_filters, ev_pc, ev_exporter, ev_emitted, ev_finished, ev_trajectory>>

EvIdle ==
    /\ ev_mode = "idle"
    /\ ev_filters = FALSE
    /\ ev_pc = <<>>
    /\ ev_exporter = <<>>
    /\ ev_emitted = <<>>
    /\ ev_finished = <<>>
    /\ ev_trajectory = <<>>

VARIABLES
    sim_pc,            \* task_function of actor_simulator.py: where it stands
    sim_max_turns,     \* max_turns of the user simulator
    sim_filters,       \* whether the mapper keeps only the spans of the session id
    sim_turn,          \* the turns the simulator has played
    sim_stopped,       \* the simulator has declared the conversation over
    sim_exporter,      \* memory_exporter: the finished spans it holds
    sim_finished,      \* finished_spans
    sim_trajectory     \* the session returned as trajectory

sim_vars == <<sim_pc, sim_max_turns, sim_filters, sim_turn, sim_stopped, sim_exporter,
              sim_finished, sim_trajectory>>

SimIdle ==
    /\ sim_pc = "idle"
    /\ sim_max_turns = 0
    /\ sim_filters = FALSE
    /\ sim_turn = 0
    /\ sim_stopped = FALSE
    /\ sim_exporter = <<>>
    /\ sim_finished = <<>>
    /\ sim_trajectory = <<>>

VARIABLES
    bk_balances,       \* trajectory_evaluator.py: the module-level dict balances
    bk_modified,       \* how many times modify_balance has changed it
    bk_last            \* history: the last tool call, the table it found, its outcome

bk_vars == <<bk_balances, bk_modified, bk_last>>

NoCall == [op |-> "none", person |-> "", amount |-> 0, before |-> <<>>, ret |-> <<>>,
           raised |-> FALSE]

BkIdle == bk_balances = <<>> /\ bk_modified = 0 /\ bk_last = NoCall

VARIABLES
    sys_path_before    \* history: sys.path when on_pre_build was called

SysPathIdle == sys_path_before = <<>>

all_vars == <<vars, bc_vars, gd_vars, ts_vars, qc_vars, ed_vars, ev_vars, sim_vars,
              bk_vars, sys_path_before>>

\* every program but p is idle
RestIdle(p) ==
    /\ IF p \in {"on_pre_build", "on_pre_build with history"} THEN TRUE ELSE PyIdle
    /\ IF p = "on_pre_build with history" THEN TRUE ELSE SysPathIdle
    /\ IF p = "is_base_class" THEN TRUE ELSE BcIdle
    /\ IF p = "generate_docs" THEN TRUE ELSE GdIdle
    /\ IF p = "on_startup" THEN TRUE ELSE TsIdle
    /\ IF p = "QualityChecker" THEN TRUE ELSE QcIdle
    /\ IF p = "edge conditions" THEN TRUE ELSE EdIdle
    /\ IF p = "evaluation" THEN TRUE ELSE EvIdle
    /\ IF p = "actor simulator" THEN TRUE ELSE SimIdle
    /\ IF p = "bank tools" THEN TRUE ELSE BkIdle

\* a step of program p leaves the other programs alone
RestUnchanged(p) ==
    /\ IF p \in {"on_pre_build", "on_pre_build with history"} THEN TRUE ELSE UNCHANGED vars
    /\ UNCHANGED sys_path_before
    /\ IF p = "is_base_class" THEN TRUE ELSE UNCHANGED bc_vars
    /\ IF p = "generate_docs" THEN TRUE ELSE UNCHANGED gd_vars
    /\ IF p = "on_startup" THEN TRUE ELSE UNCHANGED ts_vars
    /\ IF p = "QualityChecker" THEN TRUE ELSE UNCHANGED qc_vars
    /\ IF p = "edge conditions" THEN TRUE ELSE UNCHANGED ed_vars
    /\ IF p = "evaluation" THEN TRUE ELSE UNCHANGED ev_vars
    /\ IF p = "actor simulator" THEN TRUE ELSE UNCHANGED sim_vars
    /\ IF p = "bank tools" THEN TRUE ELSE UNCHANGED bk_vars

-----------------------------------------------------------------------------
(* on_pre_build *)


Init ==
    /\ pc = "start"
    /\ repo \in Repos
    /\ temp_dir \in {NoDir, Dir({})}
    /\ out_dir = FALSE
    /\ installed = FALSE
    /\ sys_path = <<s_site>>
    /\ modules = <<>>
    /\ categories = NoCategories
    /\ todo = <<>>
    /\ category = None
    /\ module_list = <<>>
    /\ containers = <<>>
    /\ nav_items = <<>>
    /\ experimental_nav = <<>>
    /\ calls = <<>>
    /\ disk = NoFiles
    /\ config_nav \in ConfigNavs
    /\ log = <<>>
    /\ raised = FALSE

\* Clone with a slip: a failed clone is logged and the hook goes on
Clone_ContinueOnFailure ==
    /\ pc = "start"
    /\ out_dir' = TRUE
    /\ \E ok \in BOOLEAN :
          /\ temp_dir' = IF ok THEN Dir(repo) ELSE NoDir
          /\ log' = Append(log, IF ok THEN "cloned" ELSE "clone failed")
    /\ pc' = "install"
    /\ UNCHANGED <<repo, installed, sys_path, modules, categories, todo, category,
                   module_list, containers, nav_items, experimental_nav, calls, disk,
                   config_nav, raised>>

\* lines 122-132: mkdir, rmtree, git clone
Clone ==
    /\ pc = "start"
    /\ out_dir' = TRUE
    /\ \E ok \in BOOLEAN :
          IF ok
          THEN /\ temp_dir' = Dir(repo)
               /\ log' = Append(log, "cloned")
               /\ pc' = "install"
          ELSE /\ temp_dir' = NoDir
               /\ log' = Append(log, "clone failed")
               /\ pc' = "done"
    /\ UNCHANGED <<repo, installed, sys_path, modules, categories, todo, category,
                   module_list, containers, nav_items, experimental_nav, calls, disk,
                   config_nav, raised>>

\* Install with a slip: a failed install returns, as a failed clone does
Install_ReturnOnFailure ==
    /\ pc = "install"
    /\ \E ok \in BOOLEAN :
          /\ installed' = ok
          /\ log' = Append(log, IF ok THEN "installed" ELSE "install failed")
          /\ sys_path' = IF ok THEN <<s_sdk_src>> \o sys_path ELSE sys_path
          /\ pc' = IF ok THEN "discover" ELSE "done"
    /\ UNCHANGED <<repo, temp_dir, out_dir, modules, categories, todo, category,
                   module_list, containers, nav_items, experimental_nav, calls, disk,
                   config_nav, raised>>

\* lines 134-145: pip install, then sys.path.insert(0, sdk_src_path)
Install ==
    /\ pc = "install"
    /\ \E ok \in BOOLEAN :
          /\ installed' = ok
          /\ log' = Append(log, IF ok THEN "installed" ELSE "install failed")
    /\ sys_path' = <<s_sdk_src>> \o sys_path
    /\ pc' = "discover"
    /\ UNCHANGED <<repo, temp_dir, out_dir, modules, categories, todo, category,
                   module_list, containers, nav_items, experimental_nav, calls, disk,
                   config_nav, raised>>

\* lines 147-166: discover_modules and the grouping by category. rglob lists the
\* files in any order; an import may raise something that is no ImportError, which
\* leaves on_pre_build through the finally block.
Discover ==
    /\ pc = "discover"
    /\ \E py_files \in Orders(RglobPy(temp_dir)), import_raises \in BOOLEAN :
          LET found == discover_modules(py_files)
              grouped == GroupByCategory(found)
          IN  IF import_raises /\ found # <<>>
              THEN /\ raised' = TRUE
                   /\ log' = Append(log, "generating")
                   /\ pc' = "cleanup"
                   /\ UNCHANGED <<modules, categories, todo>>
              ELSE /\ modules' = found
                   /\ raised' = raised
                   /\ IF found = <<>>
                      THEN /\ log' = log \o <<"generating", "no modules">>
                           /\ pc' = "cleanup"
                           /\ UNCHANGED <<categories, todo>>
                      ELSE /\ log' = Append(log, "generating")
                           /\ categories' = grouped
                           /\ todo' = SortedStrs(DOMAIN grouped)
                           /\ pc' = "category"
    /\ UNCHANGED <<repo, temp_dir, out_dir, installed, sys_path, category, module_list,
                   containers, nav_items, experimental_nav, calls, disk, config_nav>>

\* lines 168-222: one pass of the loop over sorted(categories.keys())
Category ==
    /\ pc = "category"
    /\ todo # <<>>
    /\ LET cat == Head(todo)
           list == categories[cat]
           found == find_container_modules(list, MainModule(cat))
           all_modules == list \o found
           actual_modules == Range(list)
           category_dir == OUTPUT_DIR \o s_slash \o cat
           cs == DocCalls(all_modules, all_modules, actual_modules, category_dir)
           category_nav == CategoryNav(cat, all_modules, actual_modules)
       IN  /\ category' = cat
           /\ module_list' = list
           /\ containers' = found
           /\ calls' = calls \o cs
           /\ disk' = generate_doc_files(disk, cs)
           /\ IF cat = s_experimental
              THEN /\ experimental_nav' = <<category_nav>>
                   /\ nav_items' = nav_items
              ELSE /\ nav_items' = Append(nav_items, category_nav)
                   /\ experimental_nav' = experimental_nav
    /\ todo' = Tail(todo)
    /\ UNCHANGED <<pc, repo, temp_dir, out_dir, installed, sys_path, modules, categories,
                   config_nav, log, raised>>

\* UpdateNav with a slip: experimental is put first
UpdateNav_ExperimentalFirst ==
    /\ pc = "category"
    /\ todo = <<>>
    /\ nav_items' = experimental_nav \o nav_items
    /\ config_nav' = UpdateConfigNav(config_nav, experimental_nav \o nav_items)
    /\ log' = Append(log, "updated nav")
    /\ pc' = "cleanup"
    /\ UNCHANGED <<repo, temp_dir, out_dir, installed, sys_path, modules, categories, todo,
                   category, module_list, containers, experimental_nav, calls, disk, raised>>

\* lines 224-234: experimental goes last, config['nav'] gets the list
UpdateNav ==
    /\ pc = "category"
    /\ todo = <<>>
    /\ LET items == IF experimental_nav # <<>> THEN nav_items \o experimental_nav
                    ELSE nav_items
       IN  /\ nav_items' = items
           /\ config_nav' = UpdateConfigNav(config_nav, items)
    /\ log' = Append(log, "updated nav")
    /\ pc' = "cleanup"
    /\ UNCHANGED <<repo, temp_dir, out_dir, installed, sys_path, modules, categories, todo,
                   category, module_list, containers, experimental_nav, calls, disk, raised>>

\* the finally block without sys.path.remove
Cleanup_KeepPath ==
    /\ pc = "cleanup"
    /\ temp_dir' = NoDir
    /\ pc' = "done"
    /\ UNCHANGED <<repo, out_dir, installed, sys_path, modules, categories, todo, category,
                   module_list, containers, nav_items, experimental_nav, calls, disk,
                   config_nav, log, raised>>

\* lines 236-240: the finally block
Cleanup ==
    /\ pc = "cleanup"
    /\ sys_path' = IF s_sdk_src \in Range(sys_path) THEN ListRemove(sys_path, s_sdk_src)
                   ELSE sys_path
    /\ temp_dir' = NoDir
    /\ pc' = "done"
    /\ UNCHANGED <<repo, out_dir, installed, modules, categories, todo, category,
                   module_list, containers, nav_items, experimental_nav, calls, disk,
                   config_nav, log, raised>>

Next == Clone \/ Install \/ Discover \/ Category \/ UpdateNav \/ Cleanup

\* on_pre_build runs alone
PyNext ==
    \/ Clone /\ RestUnchanged("on_pre_build")
    \/ Install /\ RestUnchanged("on_pre_build")
    \/ Discover /\ RestUnchanged("on_pre_build")
    \/ Category /\ RestUnchanged("on_pre_build")
    \/ UpdateNav /\ RestUnchanged("on_pre_build")
    \/ Cleanup /\ RestUnchanged("on_pre_build")

PyInit == Init /\ RestIdle("on_pre_build")

Spec == PyInit /\ [][PyNext]_all_vars

-----------------------------------------------------------------------------
(* What the claims speak of *)

\* the categories the loop of line 168 has passed
Processed == DOMAIN categories \ Range(todo)

\* parts[1] of a module name: its category
CategoryOf(m) == Split(m, s_dot)[2]

\* the generate_doc_file calls made for a module
CallsFor(m) == {i \in 1..Len(calls) : calls[i].module = m}

\* the nav entries built so far, and the one of a category
BuiltEntries == Range(nav_items) \cup Range(experimental_nav)
EntryOf(cat) == CHOOSE e \in BuiltEntries : e.key = MainModule(cat)

\* the link targets of a nav entry, at any depth
RECURSIVE Targets(_)
Targets(e) ==
    IF e.kind = "link" THEN {e.target}
    ELSE UNION {Targets(e.items[i]) : i \in 1..Len(e.items)}

\* the sections of a nav entry, at any depth, the entry included
RECURSIVE Sections(_)
Sections(e) ==
    IF e.kind = "link" THEN {}
    ELSE {e} \cup UNION {Sections(e.items[i]) : i \in 1..Len(e.items)}

\* C1: every module discover_modules returned triggers exactly one
\* generate_doc_file call once the loop has passed its category, and none before.
C1_EveryModuleWrittenOnce ==
    \A m \in Range(modules) :
        Cardinality(CallsFor(m)) = IF CategoryOf(m) \in Processed THEN 1 ELSE 0

C1_Witness ==
    /\ pc = "done"
    /\ Cardinality(Range(modules)) = 3
    /\ Cardinality(DOMAIN categories) = 2
    /\ containers # <<>>
    /\ Len(calls) = 3

\* C2: two distinct modules are never written to the same output path.
C2_OutputPathInjective ==
    \A i, j \in 1..Len(calls) :
        calls[i].module # calls[j].module => calls[i].output_path # calls[j].output_path

\* C3: for every category the loop has passed, the link targets of its nav entry,
\* with "docs/" put back in front, are exactly the paths generate_doc_file wrote
\* for the modules of the category.
C3_NavMatchesFiles ==
    \A cat \in Processed :
        /\ \E e \in BuiltEntries : e.key = MainModule(cat)
        /\ {s_docs \o target : target \in Targets(EntryOf(cat))}
             = {calls[i].output_path : i \in {k \in 1..Len(calls) :
                                                  CategoryOf(calls[k].module) = cat}}

C3_Witness ==
    /\ pc = "done"
    /\ \E cat \in Processed :
          /\ Cardinality(Targets(EntryOf(cat))) = 3
          /\ \E s \in Sections(EntryOf(cat)) : s.key # MainModule(cat)
          /\ MainModule(cat) \in Range(modules)

\* C4: generate_doc_file is never called for a name that discover_modules did not
\* return; a container of find_container_modules is such a name.
C4_NoFileForContainer ==
    /\ \A i \in 1..Len(calls) : calls[i].module \in Range(modules)
    /\ \A c \in Range(containers) : c \notin Range(modules) /\ CallsFor(c) = {}

C4_Witness ==
    /\ pc = "done"
    /\ containers # <<>>
    /\ Len(calls) >= 2

\* the entries of a section that stand for its children: the index link of the
\* section carries the section's own name
ChildIndexes(s) == {i \in 1..Len(s.items) : s.items[i].key # s.key}

\* the last component of the dotted name an entry was built for
ChildName(e) == Last(Split(e.key, s_dot))

\* C5: at every level of the nav, the children that are base-class-like relative
\* to the parent come first, and each of the two groups is in ascending order of
\* the child's last name component.
C5_NavOrdered ==
    \A e \in BuiltEntries : \A s \in Sections(e) : \A i, j \in ChildIndexes(s) :
        i < j =>
            LET base_i == is_base_class(ChildName(s.items[i]), ChildName(s))
                base_j == is_base_class(ChildName(s.items[j]), ChildName(s))
            IN  \/ base_i /\ ~base_j
                \/ (base_i <=> base_j) /\ StrLess(ChildName(s.items[i]), ChildName(s.items[j]))

C5_Witness ==
    \E e \in BuiltEntries : \E s \in Sections(e) : \E i, j \in ChildIndexes(s) :
        /\ i < j
        /\ is_base_class(ChildName(s.items[i]), ChildName(s))
        /\ StrLess(ChildName(s.items[j]), ChildName(s.items[i]))
        /\ s.items[j].kind = "section"
        /\ Cardinality(ChildIndexes(s.items[j])) = 2

\* the 'Python API' list of config['nav']
PythonApi ==
    LET i == CHOOSE k \in 1..Len(config_nav) : config_nav[k].title = s_python_api
    IN  config_nav[i].value

\* C6: the 'Python API' list has exactly one entry per discovered category, in
\* ascending order of category name, except that experimental is last.
C6_CategoriesOrdered ==
    "updated nav" \in Range(log) =>
        /\ PythonApi = nav_items
        /\ Len(nav_items) = Cardinality({CategoryOf(m) : m \in Range(modules)})
        /\ \A m \in Range(modules) :
               Cardinality({i \in 1..Len(nav_items) :
                                nav_items[i].key = MainModule(CategoryOf(m))}) = 1
        /\ \A i, j \in 1..Len(nav_items) :
               i < j =>
                   /\ CategoryOf(nav_items[i].key) # s_experimental
                   /\ \/ CategoryOf(nav_items[j].key) = s_experimental
                      \/ StrLess(CategoryOf(nav_items[i].key), CategoryOf(nav_items[j].key))

C6_Witness ==
    /\ pc = "done"
    /\ Len(PythonApi) = 3
    /\ CategoryOf(PythonApi[3].key) = s_experimental
    /\ PythonApi[2].kind = "section"

\* '<path>/index.md' for the section of a dotted name
IndexTarget(key) ==
    StripDocs(OUTPUT_DIR) \o s_slash \o Join(From(Split(key, s_dot), 2), s_slash)
        \o s_index_md

\* C7: a nav section holds a link to '<path>/index.md' if and only if its dotted
\* name is a discovered module; the link is then the first element, and a pure
\* namespace section holds only its children.
C7_IndexLinkIffActual ==
    \A e \in BuiltEntries : \A s \in Sections(e) :
        LET hits == {i \in 1..Len(s.items) :
                         s.items[i].kind = "link" /\ s.items[i].target = IndexTarget(s.key)}
        IN  /\ hits # {} <=> s.key \in Range(modules)
            /\ hits # {} => 1 \in hits
            /\ s.key \notin Range(modules) => ChildIndexes(s) = 1..Len(s.items)

\* C8: after a failed clone on_pre_build has returned without raising: nothing was
\* installed, discovered or written, and config['nav'] is as it was.
C8_CloneFailureReturns ==
    "clone failed" \in Range(log) =>
        /\ pc = "done"
        /\ ~raised
        /\ log = <<"clone failed">>
        /\ ~installed
        /\ sys_path = <<s_site>>
        /\ modules = <<>>
        /\ calls = <<>>
        /\ disk = NoFiles
        /\ nav_items = <<>>
        /\ config_nav \in ConfigNavs
        /\ ~ENABLED Next

C8_Witness ==
    /\ log = <<"clone failed">>
    /\ Cardinality(repo) = 2
    /\ pc = "done"

\* the modules of the files of a repository, as discover_modules names them
ModulesOf(files) ==
    {Replace(WithoutSuffix(f), s_slash, s_dot) :
         f \in {g \in RglobPy(Dir(files)) : ~StartsWith(PathName(g), s_underscore)}}

\* what a run generates from the list discover_modules returned: the calls of
\* generate_doc_file and the nav list, category by category
RECURSIVE ExpectedCalls(_, _)
ExpectedCalls(cats, groups) ==
    IF cats = <<>> THEN <<>>
    ELSE LET list == groups[Head(cats)]
             all_modules == list \o find_container_modules(list, MainModule(Head(cats)))
         IN  DocCalls(all_modules, all_modules, Range(list),
                      OUTPUT_DIR \o s_slash \o Head(cats))
                 \o ExpectedCalls(Tail(cats), groups)

ExpectedEntry(cat, groups) ==
    CategoryNav(cat, groups[cat] \o find_container_modules(groups[cat], MainModule(cat)),
                Range(groups[cat]))

ExpectedNav(mods) ==
    LET groups == GroupByCategory(mods)
        others == SortedStrs(DOMAIN groups \ {s_experimental})
    IN  [i \in 1..Len(others) |-> ExpectedEntry(others[i], groups)]
            \o (IF s_experimental \in DOMAIN groups
                THEN <<ExpectedEntry(s_experimental, groups)>> ELSE <<>>)

\* C9: after a failed install on_pre_build goes on: it never returns early, and a
\* run that ends without an exception has discovered the modules of the clone,
\* generated their files and updated the nav, as a run whose install succeeded.
C9_InstallFailureContinues ==
    /\ "install failed" \in Range(log) => pc \in {"discover", "category", "cleanup", "done"}
    /\ (pc = "done" /\ ~raised /\ "clone failed" \notin Range(log)) =>
           /\ Range(modules) = ModulesOf(repo)
           /\ Len(modules) = Cardinality(ModulesOf(repo))
           /\ sys_path = <<s_site>>
           /\ modules = <<>> => "no modules" \in Range(log) /\ calls = <<>>
           /\ modules # <<>> =>
                  /\ "updated nav" \in Range(log)
                  /\ calls = ExpectedCalls(SortedStrs(DOMAIN GroupByCategory(modules)),
                                           GroupByCategory(modules))
                  /\ disk = generate_doc_files(NoFiles, calls)
                  /\ PythonApi = ExpectedNav(modules)

C9_Witness ==
    /\ pc = "done"
    /\ "install failed" \in Range(log)
    /\ "updated nav" \in Range(log)
    /\ ~installed
    /\ Len(calls) = 3
    /\ Len(PythonApi) = 2

\* the dotted prefixes of a name that have at least n components
DottedPrefixes(m, n) ==
    {SubSeq(m, 1, k) : k \in {i \in 1..Len(m) :
        /\ i = Len(m) \/ m[i + 1] = s_dot[1]
        /\ Cardinality({d \in 1..i : m[d] = s_dot[1]}) >= n - 1}}

-----------------------------------------------------------------------------
(* build-py-docs.py: is_base_class called on its own *)

MaxNameLen == 3

\* the names of at most n letters over "a" and "s"
RECURSIVE NamesUpTo(_)
NamesUpTo(n) ==
    IF n = 0 THEN {<<>>}
    ELSE NamesUpTo(n - 1)
             \cup {w \o c : w \in {v \in NamesUpTo(n - 1) : Len(v) = n - 1}, c \in {s_a, s_s}}

\* module name components: not empty
Names == NamesUpTo(MaxNameLen) \ {<<>>}

InitBaseClass ==
    /\ RestIdle("is_base_class")
    /\ bc_child \in Names
    /\ bc_parent \in Names
    /\ bc_called = FALSE
    /\ bc_result = FALSE

\* lines 69-73
CallIsBaseClass ==
    /\ ~bc_called
    /\ bc_called' = TRUE
    /\ bc_result' = is_base_class(bc_child, bc_parent)
    /\ UNCHANGED <<bc_child, bc_parent>>

BaseClassNext == CallIsBaseClass /\ RestUnchanged("is_base_class")

SpecBaseClass == InitBaseClass /\ [][BaseClassNext]_all_vars

\* C11: is_base_class(child_name, parent_name) is true exactly when child_name
\* equals parent_name or child_name + 's' equals parent_name.
C11_BaseClassExact ==
    bc_called =>
        (bc_result <=> (bc_child = bc_parent \/ bc_child \o s_s = bc_parent))

-----------------------------------------------------------------------------
(* scripts/api-generation-python.py: generate_docs *)

s_mdx == <<46,109,100,120>>                   \* ".mdx"
s_int == <<95,105,110,116>>                   \* "_int"
s_old == <<111,108,100>>                      \* "old"

MaxModules == 3

\* the excluded_modules of lines 98-100
excluded_modules == {Join(<<s_strands, s_agent>>, s_dot)}

\* line 111, second operand only: the last component starts with "_"
is_private_LastPart(module_name) ==
    StartsWith(Last(Split(module_name, s_dot)), s_underscore)

\* line 111: any(part.startswith("_") for part in module_name.split("."))
is_private(module_name) ==
    \E part \in Range(Split(module_name, s_dot)) : StartsWith(part, s_underscore)

\* line 123: f"{module_name}.mdx"
MdxName(module_name) == module_name \o s_mdx

\* the module names the loader may return
ModuleUniverse ==
    { s_strands,
      Join(<<s_strands, s_agent>>, s_dot),
      Join(<<s_strands, s_agent, s_agent>>, s_dot),
      Join(<<s_strands, s_tools>>, s_dot),
      Join(<<s_strands, s_priv>>, s_dot),
      Join(<<s_strands, s_int, s_a>>, s_dot),
      Join(<<s_strands, s_tools, s_priv>>, s_dot) }

\* load_modules returns every module once, in the order it found them
ModuleLists ==
    UNION {Orders(S) : S \in {T \in SUBSET ModuleUniverse : Cardinality(T) <= MaxModules}}

\* what the output directory may hold from an earlier run
OldOutputs ==
    { NoDir,
      Dir({}),
      Dir({MdxName(Join(<<s_strands, s_old>>, s_dot))}),
      Dir({MdxName(Join(<<s_strands, s_tools>>, s_dot)),
           MdxName(Join(<<s_strands, s_priv>>, s_dot))}) }

InitGenerateDocs ==
    /\ RestIdle("generate_docs")
    /\ gd_pc = "start"
    /\ gd_before \in OldOutputs
    /\ gd_output_dir = gd_before
    /\ gd_loaded = <<>>
    /\ gd_modules = <<>>
    /\ gd_rendered = <<>>
    /\ gd_module_files = <<>>
    /\ gd_log = <<>>

\* lines 52-59 without the rmtree
Prepare_KeepExisting ==
    /\ gd_pc = "start"
    /\ gd_output_dir' = Dir(gd_output_dir.files)
    /\ gd_log' = gd_log
    /\ gd_pc' = "load"
    /\ UNCHANGED <<gd_before, gd_loaded, gd_modules, gd_rendered, gd_module_files>>

\* lines 52-59: delete the output directory if it exists, then create it
Prepare ==
    /\ gd_pc = "start"
    /\ gd_output_dir' = Dir({})
    /\ gd_log' = IF gd_output_dir.exists THEN Append(gd_log, <<"deleted">>) ELSE gd_log
    /\ gd_pc' = "load"
    /\ UNCHANGED <<gd_before, gd_loaded, gd_modules, gd_rendered, gd_module_files>>

\* lines 94-95: load and process the modules
Load ==
    /\ gd_pc = "load"
    /\ \E ms \in ModuleLists :
          /\ gd_loaded' = ms
          /\ gd_modules' = ms
    /\ gd_pc' = "loop"
    /\ UNCHANGED <<gd_before, gd_output_dir, gd_rendered, gd_module_files, gd_log>>

\* lines 106-143: one pass of the loop
Module ==
    /\ gd_pc = "loop"
    /\ gd_modules /= <<>>
    /\ LET module_name == Head(gd_modules)
           filename == MdxName(module_name)
       IN  IF is_private(module_name)
           THEN /\ gd_log' = Append(gd_log, <<"private", module_name>>)
                /\ UNCHANGED <<gd_output_dir, gd_rendered, gd_module_files>>
           ELSE IF module_name \in excluded_modules
           THEN /\ gd_log' = Append(gd_log, <<"excluded", module_name>>)
                /\ UNCHANGED <<gd_output_dir, gd_rendered, gd_module_files>>
           ELSE \* the front matter makes the content non-empty: line 138 is true
                /\ gd_rendered' = Append(gd_rendered, module_name)
                /\ gd_output_dir' = Dir(gd_output_dir.files \cup {filename})
                /\ gd_module_files' = Append(gd_module_files, <<module_name, filename>>)
                /\ gd_log' = Append(gd_log, <<"generated", filename>>)
    /\ gd_modules' = Tail(gd_modules)
    /\ UNCHANGED <<gd_pc, gd_before, gd_loaded>>

\* line 145: the loop is over, the total is printed
Report ==
    /\ gd_pc = "loop"
    /\ gd_modules = <<>>
    /\ gd_log' = Append(gd_log, <<"total", Len(gd_module_files)>>)
    /\ gd_pc' = "done"
    /\ UNCHANGED <<gd_before, gd_output_dir, gd_loaded, gd_modules, gd_rendered,
                   gd_module_files>>

GenerateDocsNext ==
    \/ Prepare /\ RestUnchanged("generate_docs")
    \/ Load /\ RestUnchanged("generate_docs")
    \/ Module /\ RestUnchanged("generate_docs")
    \/ Report /\ RestUnchanged("generate_docs")

SpecGenerateDocs == InitGenerateDocs /\ [][GenerateDocsNext]_all_vars

\* a dotted name one of whose components starts with "_", read off the characters
HasUnderscoreComponent(name) ==
    \/ name[1] = 95
    \/ \E i \in 1..(Len(name) - 1) : name[i] = 46 /\ name[i + 1] = 95

\* the loaded modules the claim calls documented
Documented ==
    {m \in Range(gd_loaded) :
        ~HasUnderscoreComponent(m) /\ m /= Join(<<s_strands, s_agent>>, s_dot)}

Visited == Range(gd_loaded) \ Range(gd_modules)

\* C12: generate_docs never renders or writes a file for a module one of whose
\* dotted components starts with '_', nor for 'strands.agent'; every other
\* loaded module is rendered and written once the loop has passed it.
C12_PrivateAndExcludedSkipped ==
    /\ \A i \in 1..Len(gd_module_files) : gd_module_files[i][1] \in Documented
    /\ Range(gd_rendered) \subseteq Documented
    /\ gd_pc \in {"loop", "done"} =>
          /\ gd_output_dir.files \subseteq {MdxName(m) : m \in Documented}
          /\ \A m \in Documented \cap Visited :
                /\ m \in Range(gd_rendered)
                /\ MdxName(m) \in gd_output_dir.files

\* a finished run that met a private module (private by an inner component), the
\* excluded module and a documented one
C12_Witness ==
    /\ gd_pc = "done"
    /\ Join(<<s_strands, s_int, s_a>>, s_dot) \in Range(gd_loaded)
    /\ Join(<<s_strands, s_agent>>, s_dot) \in Range(gd_loaded)
    /\ Documented /= {}

TotalsPrinted == {gd_log[i][2] : i \in {j \in 1..Len(gd_log) : gd_log[j][1] = "total"}}

\* C13: when generate_docs has completed, the output directory holds exactly one
\* <module_name>.mdx per documented module of this run and nothing from an earlier
\* run, and the printed total is the number of files written.
C13_CleanOutput ==
    gd_pc = "done" =>
        /\ gd_output_dir.exists
        /\ gd_output_dir.files = {MdxName(m) : m \in Documented}
        /\ Cardinality(gd_output_dir.files) = Cardinality(Documented)
        /\ TotalsPrinted = {Cardinality(gd_output_dir.files)}

\* a finished run over a directory that held files this run does not write
C13_Witness ==
    /\ gd_pc = "done"
    /\ gd_before.files \ {MdxName(m) : m \in Documented} /= {}
    /\ Documented /= {}

-----------------------------------------------------------------------------
(* build-ts-docs.py: on_startup *)

MaxExitCode == 4

\* what a child process can return: 0, an error code, or minus the signal that
\* killed it
ExitCodes == (-MaxExitCode)..MaxExitCode

InitStartup ==
    /\ RestIdle("on_startup")
    /\ ts_pc = "start"
    /\ ts_command \in {"build", "serve", "gh-deploy"}
    /\ ts_dirty \in BOOLEAN
    /\ ts_started = <<>>
    /\ ts_exit = <<>>
    /\ ts_log = <<>>

\* lines 7-8 with check=False: the exit code is ignored
RunClone_Unchecked ==
    /\ ts_pc = "start"
    /\ \E rc \in ExitCodes :
          /\ ts_started' = Append(ts_started, "docs:clone")
          /\ ts_exit' = Append(ts_exit, rc)
          /\ ts_log' = Append(ts_log, "clone ok")
          /\ ts_pc' = "cloned"
    /\ UNCHANGED <<ts_command, ts_dirty>>

\* lines 7-8: npm run docs:clone, check=True
RunClone ==
    /\ ts_pc = "start"
    /\ \E rc \in ExitCodes :
          /\ ts_started' = Append(ts_started, "docs:clone")
          /\ ts_exit' = Append(ts_exit, rc)
          /\ IF rc = 0
             THEN ts_log' = Append(ts_log, "clone ok") /\ ts_pc' = "cloned"
             ELSE ts_log' = ts_log /\ ts_pc' = "raised"
    /\ UNCHANGED <<ts_command, ts_dirty>>

\* lines 9-10: npm run docs:ts, check=True
RunTs ==
    /\ ts_pc = "cloned"
    /\ \E rc \in ExitCodes :
          /\ ts_started' = Append(ts_started, "docs:ts")
          /\ ts_exit' = Append(ts_exit, rc)
          /\ IF rc = 0
             THEN ts_log' = Append(ts_log, "ts ok") /\ ts_pc' = "done"
             ELSE ts_log' = ts_log /\ ts_pc' = "raised"
    /\ UNCHANGED <<ts_command, ts_dirty>>

StartupNext ==
    \/ RunClone /\ RestUnchanged("on_startup")
    \/ RunTs /\ RestUnchanged("on_startup")

SpecStartup == InitStartup /\ [][StartupNext]_all_vars

\* C14: on_startup starts 'docs:clone' first and 'docs:ts' only after it, never
\* starts 'docs:ts' when 'docs:clone' exited non-zero, and a non-zero exit of
\* either step raises out of on_startup instead of returning.
C14_CloneBeforeTs ==
    /\ ts_started \in {<<>>, <<"docs:clone">>, <<"docs:clone", "docs:ts">>}
    /\ Len(ts_exit) = Len(ts_started)
    /\ Len(ts_started) = 2 => ts_exit[1] = 0
    /\ (\E i \in 1..Len(ts_exit) : ts_exit[i] /= 0) <=> ts_pc = "raised"
    /\ ts_pc = "done" => ts_started = <<"docs:clone", "docs:ts">> /\ ts_exit = <<0, 0>>

\* 'docs:clone' was killed by a signal: on_startup raised before 'docs:ts'
C14_Witness ==
    /\ ts_pc = "raised"
    /\ ts_started = <<"docs:clone">>
    /\ ts_exit[1] < 0

-----------------------------------------------------------------------------
(* build-py-docs.py: on_pre_build from any sys.path, with exceptions in the
   generation *)

\* sys.path of the host: without the SDK path, or with it already there
SysPaths == {<<s_site>>, <<s_sdk_src, s_site>>, <<s_site, s_sdk_src>>}

InitCleanup ==
    /\ RestIdle("on_pre_build with history")
    /\ pc = "start"
    /\ repo \in {r \in Repos : Cardinality(r) < MaxFiles}
    /\ temp_dir \in {NoDir, Dir({})}
    /\ out_dir = FALSE
    /\ installed = FALSE
    /\ sys_path \in SysPaths
    /\ sys_path_before = sys_path
    /\ modules = <<>>
    /\ categories = NoCategories
    /\ todo = <<>>
    /\ category = None
    /\ module_list = <<>>
    /\ containers = <<>>
    /\ nav_items = <<>>
    /\ experimental_nav = <<>>
    /\ calls = <<>>
    /\ disk = NoFiles
    /\ config_nav \in ConfigNavs
    /\ log = <<>>
    /\ raised = FALSE

\* lines 168-234: a statement of the generation raises (write_text, mkdir); the
\* exception leaves the try block through finally
GenerationRaises ==
    /\ pc = "category"
    /\ raised' = TRUE
    /\ pc' = "cleanup"
    /\ UNCHANGED <<repo, temp_dir, out_dir, installed, sys_path, modules, categories, todo,
                   category, module_list, containers, nav_items, experimental_nav, calls,
                   disk, config_nav, log>>

CleanupNext ==
    \/ Clone /\ RestUnchanged("on_pre_build with history")
    \/ Install /\ RestUnchanged("on_pre_build with history")
    \/ Discover /\ RestUnchanged("on_pre_build with history")
    \/ Category /\ RestUnchanged("on_pre_build with history")
    \/ GenerationRaises /\ RestUnchanged("on_pre_build with history")
    \/ UpdateNav /\ RestUnchanged("on_pre_build with history")
    \/ Cleanup /\ RestUnchanged("on_pre_build with history")

SpecCleanup == InitCleanup /\ [][CleanupNext]_all_vars

\* C15: once the clone has succeeded, on_pre_build is left, by normal completion,
\* by the 'No modules found' return or by an exception during discovery or
\* generation, only with the temporary directory removed and with sys.path the
\* list it was before the call.
C15_CleanupAlways ==
    /\ (pc = "done" /\ "cloned" \in Range(log)) =>
          /\ ~temp_dir.exists
          /\ sys_path = sys_path_before
    /\ (pc \in {"discover", "category", "cleanup"}) =>
          /\ "cloned" \in Range(log)
          /\ sys_path = <<s_sdk_src>> \o sys_path_before

\* the generation raised while sys.path already held the SDK path before the call
C15_Witness ==
    /\ pc = "done"
    /\ raised
    /\ calls /= <<>>
    /\ s_sdk_src \in Range(sys_path_before)

-----------------------------------------------------------------------------
(* graph_loops_example.py: QualityChecker *)

MaxCalls == 7

\* the approval_after a QualityChecker may be built with
ApprovalAfters == (-MaxCalls)..(MaxCalls + 1)

\* lines 52-56: __init__
InitChecker ==
    /\ RestIdle("QualityChecker")
    /\ qc_approval_after \in ApprovalAfters
    /\ qc_iteration = 0
    /\ qc_results = <<>>

\* line 60 with > for >=
approved_Strict(iteration, approval_after) == iteration > approval_after

\* line 60: approved = self.iteration >= self.approval_after
approved(iteration, approval_after) == iteration >= approval_after

\* lines 58-76: invoke_async. It holds no await: a call runs to its end.
invoke_async ==
    /\ Len(qc_results) < MaxCalls
    /\ qc_iteration' = qc_iteration + 1
    /\ qc_results' = Append(qc_results,
                            [status |-> "COMPLETED",
                             name |-> "checker",
                             node_status |-> "COMPLETED",
                             state |-> [approved |-> approved(qc_iteration + 1,
                                                              qc_approval_after),
                                        iteration |-> qc_iteration + 1]])
    /\ UNCHANGED qc_approval_after

CheckerNext == invoke_async /\ RestUnchanged("QualityChecker")

SpecChecker == InitChecker /\ [][CheckerNext]_all_vars

\* C16: the k-th invoke_async of a QualityChecker reports approved exactly when
\* k >= approval_after, with iteration k and status COMPLETED; once a call has
\* reported approved, every later call does.
C16_ApprovedFromThreshold ==
    /\ \A k \in 1..Len(qc_results) :
          /\ qc_results[k].state.approved <=> (k >= qc_approval_after)
          /\ qc_results[k].state.iteration = k
          /\ qc_results[k].status = "COMPLETED"
    /\ \A j, k \in 1..Len(qc_results) :
          (j < k /\ qc_results[j].state.approved) => qc_results[k].state.approved

\* a checker that refused its first call and approved a later one, then was
\* called again
C16_Witness ==
    /\ Len(qc_results) >= 3
    /\ ~qc_results[1].state.approved
    /\ qc_results[Len(qc_results) - 1].state.approved
    /\ qc_approval_after = Len(qc_results) - 1

-----------------------------------------------------------------------------
(* graph_loops_example.py: the edge conditions needs_revision and is_approved *)

MaxIteration == 7

\* Python values an 'approved' entry may hold, written as Python writes them
PyValues == {"True", "False", "None", "0", "1", "''", "'yes'"}

\* bool(v)
Truthy(v) == v \in {"True", "1", "'yes'"}

\* not v
Not(v) == IF Truthy(v) THEN "False" ELSE "True"

\* What state.results.get("checker") can be, by the first test that stops it:
\*   "none"        no result for the checker
\*   "no results"  checker_result.result has no attribute results
\*   "no checker"  multi_result.results has no key 'checker'
\*   "no state"    the inner result has no attribute state (an exception)
\*   "state"       the inner result has a state dict; approved is its entry, or
\*                 "absent" when the dict has no such key
GraphStates ==
    {[shape |-> s, approved |-> "absent", iteration |-> 0] :
        s \in {"none", "no results", "no checker", "no state"}}
    \cup {[shape |-> "state", approved |-> a, iteration |-> i] :
             a \in PyValues \cup {"absent"}, i \in 1..MaxIteration}

\* agent_result.state.get("approved", False)
GetApproved(state) == IF state.approved = "absent" THEN "False" ELSE state.approved

\* lines 101-110
needs_revision(state) ==
    IF state.shape = "none" THEN "False"
    ELSE IF state.shape = "state" THEN Not(GetApproved(state))
    ELSE "True"

\* lines 112-121 with line 121 returning True
is_approved_DefaultTrue(state) ==
    IF state.shape = "none" THEN "False"
    ELSE IF state.shape = "state" THEN GetApproved(state)
    ELSE "True"

\* lines 112-121
is_approved(state) ==
    IF state.shape = "none" THEN "False"
    ELSE IF state.shape = "state" THEN GetApproved(state)
    ELSE "False"

InitEdges ==
    /\ RestIdle("edge conditions")
    /\ ed_state \in GraphStates
    /\ ed_needs_revision = <<>>
    /\ ed_is_approved = <<>>

\* line 123: the edge checker -> writer is tested
TestNeedsRevision ==
    /\ ed_needs_revision = <<>>
    /\ ed_needs_revision' = <<needs_revision(ed_state)>>
    /\ UNCHANGED <<ed_state, ed_is_approved>>

\* line 124: the edge checker -> finalizer is tested
TestIsApproved ==
    /\ ed_is_approved = <<>>
    /\ ed_is_approved' = <<is_approved(ed_state)>>
    /\ UNCHANGED <<ed_state, ed_needs_revision>>

EdgesNext ==
    \/ TestNeedsRevision /\ RestUnchanged("edge conditions")
    \/ TestIsApproved /\ RestUnchanged("edge conditions")

SpecEdges == InitEdges /\ [][EdgesNext]_all_vars

BothTested == ed_needs_revision /= <<>> /\ ed_is_approved /= <<>>

\* C17: on one graph state needs_revision and is_approved are never both true;
\* both are false when the checker has no result yet; exactly one is true when
\* the checker's result carries an 'approved' flag.
C17_EdgesExclusive ==
    BothTested =>
        LET nr == Truthy(ed_needs_revision[1])
            ia == Truthy(ed_is_approved[1])
        IN  /\ ~(nr /\ ia)
            /\ ed_state.shape = "none" => (~nr /\ ~ia)
            /\ (ed_state.shape = "state" /\ ed_state.approved /= "absent") => (nr /= ia)

\* both edges tested on a result whose flag is set, and on it only is_approved holds
C17_Witness ==
    /\ BothTested
    /\ ed_state.shape = "state"
    /\ ed_state.approved = "True"
    /\ ed_is_approved = <<"True">>
    /\ ed_needs_revision = <<"False">>

-----------------------------------------------------------------------------
(* evals-sdk examples: user_task_function over the shared memory_exporter *)

MaxCases == 2
MaxSpans == 2

\* the test cases; a case's number stands for its session_id
Cases == 1..MaxCases

\* the span the agent of case c emits as its n-th: trace_attributes puts the
\* case's session id on it
Span(c, n) == [session |-> c, seq |-> n]

\* StrandsInMemorySessionMapper.map_to_session(spans, session_id). The mapper is
\* the SDK's: it either keeps the spans that carry the session id (filters) or
\* takes every span it is given; the order of the spans is kept.
map_to_session(spans, session_id, filters) ==
    LET keep == {i \in 1..Len(spans) : ~filters \/ spans[i].session = session_id}
        idx(k) == CHOOSE i \in keep : Cardinality({j \in keep : j < i}) = k - 1
    IN  [k \in 1..Cardinality(keep) |-> spans[idx(k)]]

\* run_evaluations calls the task function case after case; an asynchronous
\* evaluation runs the task functions of several cases at once
InitEval ==
    /\ RestIdle("evaluation")
    /\ ev_mode \in {"sequential", "concurrent"}
    /\ ev_filters \in BOOLEAN
    /\ ev_pc = [c \in Cases |-> "clear"]
    /\ ev_exporter = <<>>
    /\ ev_emitted = [c \in Cases |-> 0]
    /\ ev_finished = [c \in Cases |-> <<>>]
    /\ ev_trajectory = [c \in Cases |-> <<>>]

\* the task function of case c may take a step
MayRun(c) ==
    ev_mode = "concurrent" \/ \A d \in Cases : d < c => ev_pc[d] = "done"

\* line 30 (line 15): memory_exporter.clear()
ClearExporter(c) ==
    /\ MayRun(c)
    /\ ev_pc[c] = "clear"
    /\ ev_exporter' = <<>>
    /\ ev_pc' = [ev_pc EXCEPT ![c] = "agent"]
    /\ UNCHANGED <<ev_mode, ev_filters, ev_emitted, ev_finished, ev_trajectory>>

\* line 39 (line 22), inside agent(case.input): a span ends and is exported
EmitSpan(c) ==
    /\ MayRun(c)
    /\ ev_pc[c] = "agent"
    /\ ev_emitted[c] < MaxSpans
    /\ ev_exporter' = Append(ev_exporter, Span(c, ev_emitted[c] + 1))
    /\ ev_emitted' = [ev_emitted EXCEPT ![c] = @ + 1]
    /\ UNCHANGED <<ev_mode, ev_filters, ev_pc, ev_finished, ev_trajectory>>

\* line 39 (line 22): agent(case.input) returns; a run ends at least one span
AgentReturns(c) ==
    /\ MayRun(c)
    /\ ev_pc[c] = "agent"
    /\ ev_emitted[c] >= 1
    /\ ev_pc' = [ev_pc EXCEPT ![c] = "read"]
    /\ UNCHANGED <<ev_mode, ev_filters, ev_exporter, ev_emitted, ev_finished, ev_trajectory>>

\* line 40 (line 23): finished_spans = memory_exporter.get_finished_spans()
GetFinishedSpans(c) ==
    /\ MayRun(c)
    /\ ev_pc[c] = "read"
    /\ ev_finished' = [ev_finished EXCEPT ![c] = ev_exporter]
    /\ ev_pc' = [ev_pc EXCEPT ![c] = "map"]
    /\ UNCHANGED <<ev_mode, ev_filters, ev_exporter, ev_emitted, ev_trajectory>>

\* lines 41-43 (lines 24-26): the session is mapped and returned
MapToSession(c) ==
    /\ MayRun(c)
    /\ ev_pc[c] = "map"
    /\ ev_trajectory' = [ev_trajectory EXCEPT ![c] = map_to_session(ev_finished[c], c, ev_filters)]
    /\ ev_pc' = [ev_pc EXCEPT ![c] = "done"]
    /\ UNCHANGED <<ev_mode, ev_filters, ev_exporter, ev_emitted, ev_finished>>

EvalNext ==
    \/ \E c \in Cases : ClearExporter(c) /\ RestUnchanged("evaluation")
    \/ \E c \in Cases : EmitSpan(c) /\ RestUnchanged("evaluation")
    \/ \E c \in Cases : AgentReturns(c) /\ RestUnchanged("evaluation")
    \/ \E c \in Cases : GetFinishedSpans(c) /\ RestUnchanged("evaluation")
    \/ \E c \in Cases : MapToSession(c) /\ RestUnchanged("evaluation")

SpecEval == InitEval /\ [][EvalNext]_all_vars

\* the spans the agent of case c emitted, in order
OwnSpans(c) == [n \in 1..ev_emitted[c] |-> Span(c, n)]

\* C19: the trajectory returned for a case is exactly the spans of that case's
\* own agent run, none of another case mixed in and none lost, also when
\* several cases are evaluated concurrently.
C19_TrajectoryIsOwnSpans ==
    \A c \in Cases : ev_pc[c] = "done" => ev_trajectory[c] = OwnSpans(c)

\* the same, for cases evaluated one after the other only
EvalSequentialOwnSpans ==
    ev_mode = "sequential" =>
        \A c \in Cases : ev_pc[c] = "done" => ev_trajectory[c] = OwnSpans(c)

\* with a mapper that filters, no span of another case is ever mixed in
EvalNeverMixed ==
    ev_filters =>
    \A c \in Cases : \A i \in 1..Len(ev_trajectory[c]) : ev_trajectory[c][i].session = c

-----------------------------------------------------------------------------
(* evals-sdk examples: task_function of actor_simulator.py *)

MaxTurns == 3

\* case.session_id
SessionId == "session of the case"

\* a span of the target agent carries the session id (line 20); a span of the
\* simulator's own agent does not
TargetSpan(turn, n) == [source |-> "agent", session |-> SessionId, turn |-> turn, seq |-> n]
SimulatorSpan(turn) == [source |-> "simulator", session |-> "none", turn |-> turn, seq |-> 1]

\* lines 14-25
InitSimulator ==
    /\ RestIdle("actor simulator")
    /\ sim_pc = "loop"
    /\ sim_max_turns \in 1..MaxTurns
    /\ sim_filters \in BOOLEAN
    /\ sim_turn = 0
    /\ sim_stopped = FALSE
    /\ sim_exporter = <<>>
    /\ sim_finished = <<>>
    /\ sim_trajectory = <<>>

\* user_sim.has_next()
has_next == sim_turn < sim_max_turns /\ ~sim_stopped

\* lines 26-28: the loop is entered and the exporter cleared
LoopClear ==
    /\ sim_pc = "loop"
    /\ has_next
    /\ sim_exporter' = <<>>
    /\ sim_pc' = "agent"
    /\ UNCHANGED <<sim_max_turns, sim_filters, sim_turn, sim_stopped, sim_finished,
                   sim_trajectory>>

\* lines 29-30: the target agent answers; its spans are exported
CallAgent ==
    /\ sim_pc = "agent"
    /\ \E n \in 1..MaxSpans :
          sim_exporter' = sim_exporter \o [k \in 1..n |-> TargetSpan(sim_turn + 1, k)]
    /\ sim_pc' = "act"
    /\ UNCHANGED <<sim_max_turns, sim_filters, sim_turn, sim_stopped, sim_finished,
                   sim_trajectory>>

\* lines 31-32: the simulator answers; its span is exported. It may declare the
\* conversation over.
Act ==
    /\ sim_pc = "act"
    /\ sim_exporter' = Append(sim_exporter, SimulatorSpan(sim_turn + 1))
    /\ sim_turn' = sim_turn + 1
    /\ sim_stopped' \in BOOLEAN
    /\ sim_pc' = "loop"
    /\ UNCHANGED <<sim_max_turns, sim_filters, sim_finished, sim_trajectory>>

\* lines 26, 34-35: the loop is left and the finished spans are read
LoopExit ==
    /\ sim_pc = "loop"
    /\ ~has_next
    /\ sim_finished' = sim_exporter
    /\ sim_pc' = "map"
    /\ UNCHANGED <<sim_max_turns, sim_filters, sim_turn, sim_stopped, sim_exporter,
                   sim_trajectory>>

\* lines 36-38: the spans are mapped to the session, which is returned
MapSession ==
    /\ sim_pc = "map"
    /\ sim_trajectory' = map_to_session(sim_finished, SessionId, sim_filters)
    /\ sim_pc' = "done"
    /\ UNCHANGED <<sim_max_turns, sim_filters, sim_turn, sim_stopped, sim_exporter,
                   sim_finished>>

SimulatorNext ==
    \/ LoopClear /\ RestUnchanged("actor simulator")
    \/ CallAgent /\ RestUnchanged("actor simulator")
    \/ Act /\ RestUnchanged("actor simulator")
    \/ LoopExit /\ RestUnchanged("actor simulator")
    \/ MapSession /\ RestUnchanged("actor simulator")

SpecSimulator == InitSimulator /\ [][SimulatorNext]_all_vars

\* C20: because the exporter is cleared before each target-agent call, no
\* simulator trace is captured: the spans mapped to the returned session are
\* spans of the target agent only, never spans of the simulator's act(), for any
\* number of turns.
C20_NoSimulatorSpans ==
    sim_pc \in {"map", "done"} =>
        \A i \in 1..Len(sim_finished) : sim_finished[i].source = "agent"

\* what the clearing does achieve: nothing of an earlier turn is captured
SimOnlyLastTurn ==
    sim_pc \in {"map", "done"} =>
        \A i \in 1..Len(sim_finished) : sim_finished[i].turn = sim_turn

\* with a mapper that filters by session id the returned session has no
\* simulator span
SimFilteredSessionClean ==
    (sim_pc = "done" /\ sim_filters) =>
        \A i \in 1..Len(sim_trajectory) : sim_trajectory[i].source = "agent"

-----------------------------------------------------------------------------
(* evals-sdk examples: the bank tools of trajectory_evaluator.py *)

MaxModifies == 3

\* line 11: the keys of balances in the order the dict holds them; no tool adds
\* or removes a key
BalanceKeys == <<"Anna", "Cindy", "Brian", "Hailey">>

\* line 11
InitialBalances ==
    [person \in Range(BalanceKeys) |->
        CASE person = "Anna" -> -100
          [] person = "Cindy" -> 800
          [] person = "Brian" -> 300
          [] person = "Hailey" -> 0]

\* the persons and amounts the agent may name in a tool call
Persons == Range(BalanceKeys) \cup {"Zed"}
Amounts == {-300, -100, 100}

\* abs(x)
Abs(x) == IF x < 0 THEN -x ELSE x

\* line 26: balances.get(person, 0)
get_balance(table, person) == IF person \in DOMAIN table THEN table[person] ELSE 0

\* lines 52-57 with <= for <
RECURSIVE collect_debt_IncludesZero(_, _)
collect_debt_IncludesZero(table, keys) ==
    IF keys = <<>> THEN <<>>
    ELSE (IF table[Head(keys)] <= 0
          THEN <<<<Head(keys), Abs(table[Head(keys)])>>>>
          ELSE <<>>) \o collect_debt_IncludesZero(table, Tail(keys))

\* lines 52-57: the loop over the dict, in its key order
RECURSIVE collect_debt(_, _)
collect_debt(table, keys) ==
    IF keys = <<>> THEN <<>>
    ELSE (IF table[Head(keys)] < 0
          THEN <<<<Head(keys), Abs(table[Head(keys)])>>>>
          ELSE <<>>) \o collect_debt(table, Tail(keys))

InitBank ==
    /\ RestIdle("bank tools")
    /\ bk_balances = InitialBalances
    /\ bk_modified = 0
    /\ bk_last = NoCall

\* lines 15-26: the tool get_balance is called
CallGetBalance ==
    /\ \E person \in Persons :
          bk_last' = [op |-> "get_balance", person |-> person, amount |-> 0,
                      before |-> bk_balances,
                      ret |-> <<get_balance(bk_balances, person)>>, raised |-> FALSE]
    /\ UNCHANGED <<bk_balances, bk_modified>>

\* lines 30-41: the tool modify_balance is called; balances[person] += amount
\* raises KeyError for a person the dict does not hold
CallModifyBalance ==
    /\ bk_modified < MaxModifies
    /\ \E person \in Persons, amount \in Amounts :
          IF person \in DOMAIN bk_balances
          THEN /\ bk_balances' = [bk_balances EXCEPT ![person] = @ + amount]
               /\ bk_modified' = bk_modified + 1
               /\ bk_last' = [op |-> "modify_balance", person |-> person,
                              amount |-> amount, before |-> bk_balances, ret |-> <<>>,
                              raised |-> FALSE]
          ELSE /\ bk_last' = [op |-> "modify_balance", person |-> person,
                              amount |-> amount, before |-> bk_balances, ret |-> <<>>,
                              raised |-> TRUE]
               /\ UNCHANGED <<bk_balances, bk_modified>>

\* lines 45-57: the tool collect_debt is called
CallCollectDebt ==
    /\ bk_last' = [op |-> "collect_debt", person |-> "", amount |-> 0,
                   before |-> bk_balances,
                   ret |-> collect_debt(bk_balances, BalanceKeys), raised |-> FALSE]
    /\ UNCHANGED <<bk_balances, bk_modified>>

BankNext ==
    \/ CallGetBalance /\ RestUnchanged("bank tools")
    \/ CallModifyBalance /\ RestUnchanged("bank tools")
    \/ CallCollectDebt /\ RestUnchanged("bank tools")

SpecBank == InitBank /\ [][BankNext]_all_vars

\* the pairs a call returned for person
PairsFor(person) == {i \in 1..Len(bk_last.ret) : bk_last.ret[i][1] = person}

\* C21: on any table, collect_debt returns exactly one (person, debt) pair for
\* each account with a negative balance, with debt = -balance > 0, and no pair
\* for an account with balance >= 0, and leaves the table unchanged; get_balance
\* leaves the table unchanged too and returns 0 for an unknown person.
C21_DebtPairsExact ==
    /\ bk_last.op = "collect_debt" =>
          /\ bk_balances = bk_last.before
          /\ \A i \in 1..Len(bk_last.ret) : bk_last.ret[i][1] \in DOMAIN bk_last.before
          /\ \A person \in DOMAIN bk_last.before :
                IF bk_last.before[person] < 0
                THEN /\ Cardinality(PairsFor(person)) = 1
                     /\ \A i \in PairsFor(person) :
                           /\ bk_last.ret[i][2] = 0 - bk_last.before[person]
                           /\ bk_last.ret[i][2] > 0
                ELSE PairsFor(person) = {}
    /\ bk_last.op = "get_balance" =>
          /\ bk_balances = bk_last.before
          /\ bk_last.person \notin DOMAIN bk_last.before => bk_last.ret = <<0>>
          /\ bk_last.person \in DOMAIN bk_last.before =>
                bk_last.ret = <<bk_last.before[bk_last.person]>>

\* collect_debt called on a table that modify_balance has changed: two accounts in
\* debt, one at exactly 0, one in credit
C21_Witness ==
    /\ bk_last.op = "collect_debt"
    /\ bk_modified > 0
    /\ Len(bk_last.ret) = 2
    /\ \E person \in DOMAIN bk_balances : bk_balances[person] = 0
    /\ \E person \in DOMAIN bk_balances : bk_balances[person] > 0

====
